---- MODULE Spec2Model ----
(***************************************************************************)
(* Model of src/processes/process_item.py: the Chromebook inventory sync.  *)
(*   safe_request         GET with bounded retries and exponential backoff *)
(*   get_all_chromebooks  cursor-driven pagination over safe_request       *)
(*   process_item         credentials, collection, normalization, loading  *)
(*                                                                         *)
(* Python values are modelled as tagged records: None, and str as a        *)
(* sequence of lexical parts (the empty sequence is the empty string).     *)
(* A dict is a function whose DOMAIN is the set of keys that are present.  *)
(***************************************************************************)
EXTENDS Integers, Sequences, FiniteSets, TLC

VARIABLES
    server,        \* the directory: the JSON payload of each page served so
                   \* far, in order
    pc,            \* position of process_item / get_all_chromebooks
    err,           \* the exception that ended the run, or NoError
    calls,         \* urls handed to safe_request by get_all_chromebooks
    got,           \* status codes of the responses safe_request gave it back
    all_devices,   \* get_all_chromebooks: accumulator
    next_page,     \* get_all_chromebooks: cursor of the next request
    page_number,   \* get_all_chromebooks: page counter (logging only)
    collected,     \* whether get_all_chromebooks has returned
    devices,       \* process_item: what get_all_chromebooks returned
    tvp_rows,      \* process_item: the normalized rows
    rq,            \* safe_request frame: "idle", "running", "returned", "raised"
    url,           \* safe_request: argument
    max_retries,   \* safe_request: argument
    attempt,       \* safe_request: loop variable (0 before the first pass)
    backoff,       \* safe_request: current base delay
    resp,          \* safe_request: last outcome of requests.get
    requests,      \* number of requests.get calls made by this call
    slept,         \* backoff bases of the time.sleep calls made by this call
    sleep_for,     \* argument of the last time.sleep, in 1/1000 time-units
    rq_err,        \* what safe_request raised, or NoError
    session,       \* storage session: "none", "open", "closed"
    temp_table,    \* whether #ChromebookTemp exists
    staged,        \* rows of #ChromebookTemp
    finalized,     \* number of EXEC rpa.sp_upsert_chromebooks calls
    seen_by_sp,    \* the staged rows each finalize call saw
    committed,     \* whether the session was committed
    reconciled,    \* the permanent table as the open transaction sees it
    permanent,     \* the permanent table as committed: a set of rows
    trace,         \* direct calls of safe_request only: every outcome of
                   \* requests.get in the call, in order
    run,           \* how many times process_item has been called
    ld_pc,         \* two overlapping loaders: position of each in lines 79-107
    ld_rows,       \* two overlapping loaders: the tvp_rows of each
    ld_seen,       \* two overlapping loaders: the staged rows the finalize
                   \* call of each saw
    tempdb         \* two overlapping loaders: the temporary tables of the
                   \* database, by owner and name

reqVars == <<rq, url, max_retries, attempt, backoff, resp, requests, slept,
             sleep_for, rq_err>>
colVars == <<calls, got, all_devices, next_page, page_number>>
runVars == <<pc, err, collected, devices, tvp_rows>>
dbVars  == <<session, temp_table, staged, finalized, seen_by_sp, committed,
             reconciled, permanent>>
pairVars == <<ld_pc, ld_rows, ld_seen, tempdb>>
vars    == <<server, reqVars, colVars, runVars, dbVars, trace, run, pairVars>>

(***************************************************************************)
(* Bounds of the model.                                                    *)
(***************************************************************************)
MaxRetries == 4     \* largest max_retries tried on safe_request alone
MaxPages   == 2     \* longest chain of pages the directory serves
MaxDevices == 3     \* most device records the directory holds
MaxRuns    == 2     \* most calls of process_item in a row
MaxBatch   == 2     \* most rows of the batch of an overlapping loader

(***************************************************************************)
(* Python values.                                                          *)
(***************************************************************************)
None == [type |-> "NoneType"]

Str(parts) == [type |-> "str", val |-> parts]

PyInt(n) == [type |-> "int", num |-> n]

\* bool(v) for the values the model uses
Truthy(v) == IF v.type = "NoneType" THEN FALSE
             ELSE IF v.type = "str" THEN v.val # <<>>
             ELSE IF v.type = "int" THEN v.num # 0
             ELSE TRUE

\* d.get(k, default)
Get(d, k, default) == IF k \in DOMAIN d THEN d[k] ELSE default

\* marker in text
Contains(text, marker) == \E i \in 1..Len(text) : text[i] = marker

Error(type, msg, at) == [type |-> type, msg |-> msg, at |-> at]

NoError == Error("NoError", <<>>, "")

NoResp == [kind |-> "none"]

(***************************************************************************)
(* HTTP: what requests.get can produce.                                    *)
(***************************************************************************)
TransportFailure == [kind |-> "RequestException"]

\* a response body: resp.text as a sequence of words, and what resp.json()
\* gives (is_json = FALSE: resp.json() raises)
Body(text, is_json, json) == [text |-> text, is_json |-> is_json, json |-> json]

Response(status, body) ==
    [kind |-> "response", status_code |-> status, text |-> body.text,
     is_json |-> body.is_json, json |-> body.json]

RateLimitMarker == "rateLimitExceeded"

RateLimitBody == Body(<<"{error:", "rateLimitExceeded", "}">>, TRUE,
                      [k \in {"error"} |-> Str(<<"rateLimitExceeded">>)])

ForbiddenBody == Body(<<"{error:", "forbidden", "}">>, TRUE,
                      [k \in {"error"} |-> Str(<<"forbidden">>)])

HtmlBody == Body(<<"<html>", "error", "</html>">>, FALSE, [k \in {} |-> None])

ErrorBodies == {RateLimitBody, ForbiddenBody, HtmlBody}

\* status codes tried on safe_request alone: both ends of every range the
\* code tests, and values outside all of them
StatusCodes == {199, 200, 204, 299, 300, 302, 399, 400, 403, 404, 429, 499,
                500, 503, 599, 600}

(***************************************************************************)
(* safe_request (lines 154-198).                                           *)
(***************************************************************************)
DefaultMaxRetries == 5

\* lines 163-185 with the return of line 164 lost: a 2xx goes on to the
\* retry path
ClassifyRetriesSuccess(r) ==
    IF r.status_code >= 200 /\ r.status_code < 300 THEN "retry"
    ELSE IF r.status_code = 429 THEN "retry"
    ELSE IF r.status_code = 403 THEN
        IF Contains(r.text, RateLimitMarker) THEN "retry" ELSE "terminal"
    ELSE IF r.status_code >= 400 /\ r.status_code < 500 THEN "terminal"
    ELSE IF r.status_code >= 500 /\ r.status_code < 600 THEN "retry"
    ELSE "terminal"

\* lines 163-185 with the marker test of line 170 lost: every 403 is retried
ClassifyRetriesEvery403(r) ==
    IF r.status_code >= 200 /\ r.status_code < 300 THEN "success"
    ELSE IF r.status_code = 429 THEN "retry"
    ELSE IF r.status_code = 403 THEN "retry"
    ELSE IF r.status_code >= 400 /\ r.status_code < 500 THEN "terminal"
    ELSE IF r.status_code >= 500 /\ r.status_code < 600 THEN "retry"
    ELSE "terminal"

\* lines 163-185 with every 4xx status warned about and retried
ClassifyRetriesClientErrors(r) ==
    IF r.status_code >= 200 /\ r.status_code < 300 THEN "success"
    ELSE IF r.status_code = 429 THEN "retry"
    ELSE IF r.status_code = 403 THEN
        IF Contains(r.text, RateLimitMarker) THEN "retry" ELSE "terminal"
    ELSE IF r.status_code >= 400 /\ r.status_code < 500 THEN "retry"
    ELSE IF r.status_code >= 500 /\ r.status_code < 600 THEN "retry"
    ELSE "terminal"

\* lines 163-185: what one response means for the loop
Classify(r) ==
    IF r.status_code >= 200 /\ r.status_code < 300 THEN "success"
    ELSE IF r.status_code = 429 THEN "retry"
    ELSE IF r.status_code = 403 THEN
        IF Contains(r.text, RateLimitMarker) THEN "retry" ELSE "terminal"
    ELSE IF r.status_code >= 400 /\ r.status_code < 500 THEN "terminal"
    ELSE IF r.status_code >= 500 /\ r.status_code < 600 THEN "retry"
    ELSE "terminal"

\* lines 160-188: the try block; a RequestException is logged and retried
Outcome(r) == IF r.kind = "RequestException" THEN "retry" ELSE Classify(r)

\* line 190 with the comparison off by one
ExhaustedLate(a, mr) == a > mr

\* line 190
\* line 190 with a test that never holds
ExhaustedNever(a, mr) == FALSE

Exhausted(a, mr) == a = mr

\* line 196 with a linear instead of an exponential step
NextBackoffLinear(b) == b + 1

\* line 196
NextBackoff(b) == b * 2

\* line 193: random.random() is in [0, 1); in 1/1000 time-units
JitterMillis == {0, 999}

SleepFor(b, jitter) == b * 1000 + jitter

\* line 191
RetryExhaustedError(mr, u) ==
    Error("RuntimeError",
          <<"Failed after ", ToString(mr), " attempts: ">> \o u, "safe_request")

\* line 198
FellThroughError ==
    Error("RuntimeError", <<"safe_request() fell through unexpectedly">>,
          "safe_request")

\* the call: a fresh frame (line 157)
safe_request_call(u, mr) ==
    /\ rq' = "running"
    /\ url' = u
    /\ max_retries' = mr
    /\ attempt' = 0
    /\ backoff' = 1
    /\ resp' = NoResp
    /\ requests' = 0
    /\ slept' = <<>>
    /\ sleep_for' = 0
    /\ rq_err' = NoError

\* the frame is gone once the caller has taken the result
safe_request_drop ==
    /\ rq' = "idle"
    /\ url' = <<>>
    /\ max_retries' = 0
    /\ attempt' = 0
    /\ backoff' = 0
    /\ resp' = NoResp
    /\ requests' = 0
    /\ slept' = <<>>
    /\ sleep_for' = 0
    /\ rq_err' = NoError

\* one pass of the for loop (lines 159-196); replies: what the server at the
\* other end may answer to this request
safe_request_attempt(replies) ==
    /\ rq = "running"
    /\ attempt < max_retries
    /\ \E r \in replies :
         /\ attempt' = attempt + 1
         /\ requests' = requests + 1
         /\ resp' = r
         /\ \/ /\ Outcome(r) \in {"success", "terminal"}     \* return resp
               /\ rq' = "returned"
               /\ UNCHANGED <<backoff, slept, sleep_for, rq_err>>
            \/ /\ Outcome(r) = "retry"
               /\ Exhausted(attempt + 1, max_retries)        \* line 191
               /\ rq' = "raised"
               /\ rq_err' = RetryExhaustedError(max_retries, url)
               /\ UNCHANGED <<backoff, slept, sleep_for>>
            \/ /\ Outcome(r) = "retry"
               /\ ~Exhausted(attempt + 1, max_retries)       \* lines 193-196
               /\ \E jitter \in JitterMillis :
                      sleep_for' = SleepFor(backoff, jitter)
               /\ slept' = Append(slept, backoff)
               /\ backoff' = NextBackoff(backoff)
               /\ UNCHANGED <<rq, rq_err>>
    /\ UNCHANGED <<url, max_retries>>

\* the loop ends without a return or a raise (line 198)
safe_request_fell_through ==
    /\ rq = "running"
    /\ ~(attempt < max_retries)
    /\ rq' = "raised"
    /\ rq_err' = FellThroughError
    /\ UNCHANGED <<url, max_retries, attempt, backoff, resp, requests, slept,
                   sleep_for>>


(***************************************************************************)
(* The directory API: device records and pages.                            *)
(***************************************************************************)
DeviceKeys == {"deviceId", "serialNumber", "macAddress", "model", "status",
               "lastSync", "orgUnitPath"}

\* a record with every field present and well formed
DeviceA ==
    [k \in DeviceKeys |->
        CASE k = "deviceId"     -> Str(<<"A">>)
          [] k = "serialNumber" -> Str(<<"SN-A">>)
          [] k = "macAddress"   -> Str(<<"a4bb6d000001">>)
          [] k = "model"        -> Str(<<"Chromebook 14">>)
          [] k = "status"       -> Str(<<"ACTIVE">>)
          [] k = "lastSync"     -> Str(<<"2024-01-15", "T", "10:30:00", ".000", "Z">>)
          [] k = "orgUnitPath"  -> Str(<<"/Schools">>)]

\* a record with empty and missing optional fields and a broken timestamp
DeviceB ==
    [k \in DeviceKeys \ {"model", "status"} |->
        CASE k = "deviceId"     -> Str(<<"B">>)
          [] k = "serialNumber" -> Str(<<>>)
          [] k = "macAddress"   -> Str(<<>>)
          [] k = "lastSync"     -> Str(<<"yesterday">>)
          [] k = "orgUnitPath"  -> None]

\* a record without deviceId
DeviceNoId ==
    [k \in DeviceKeys \ {"deviceId", "lastSync"} |->
        CASE k = "serialNumber" -> Str(<<"SN-C">>)
          [] k = "macAddress"   -> Str(<<"a4bb6d000003">>)
          [] k = "model"        -> Str(<<"Chromebook 11">>)
          [] k = "status"       -> Str(<<"DISABLED">>)
          [] k = "orgUnitPath"  -> Str(<<"/">>)]

DeviceCatalogue == {DeviceA, DeviceB, DeviceNoId}

\* the cursor that leads to page i
Token(i) == Str(<<"X" \o ToString(i)>>)

\* device lists of at most n records
PageLists(n) == UNION {[1..k -> DeviceCatalogue] : k \in 0..n}

\* what a page holds: <<whether "chromeosdevices" is present, the list>>
PageContents(n) == {<<FALSE, <<>> >>} \cup {<<TRUE, l>> : l \in PageLists(n)}

\* the device records of a chain of pages, in page order
RECURSIVE AllRecords(_)
AllRecords(pages) ==
    IF pages = <<>> THEN <<>>
    ELSE AllRecords(SubSeq(pages, 1, Len(pages) - 1))
         \o Get(pages[Len(pages)], "chromeosdevices", <<>>)

\* the JSON body of page i; more: whether a further page follows, in which
\* case the body carries that page's cursor
PagePayload(c, i, more) ==
    [k \in (IF c[1] THEN {"chromeosdevices"} ELSE {})
           \cup (IF more THEN {"nextPageToken"} ELSE {}) |->
        IF k = "chromeosdevices" THEN c[2] ELSE Token(i + 1)]

\* the bodies the directory may choose for page i when it is first asked for;
\* a chain has at most MaxPages pages, so the last of them has no cursor, and
\* holds at most MaxDevices records
FreshPages(i) ==
    {PagePayload(c, i, more) :
        c \in PageContents(MaxDevices - Len(AllRecords(server))),
        more \in (IF i < MaxPages THEN BOOLEAN ELSE {FALSE})}

BaseUrl == "https://admin.googleapis.com/admin/directory/v1/customer/my_customer/devices/chromeos?projection=FULL&maxResults=300"

\* line 132
BuildUrl(np) == IF Truthy(np) THEN <<BaseUrl, "&pageToken=">> \o np.val
                ELSE <<BaseUrl>>

\* the page a url asks for: the first without pageToken, else the one the
\* token was issued for
PageIndex(u) ==
    IF Len(u) = 1 THEN 1
    ELSE CHOOSE i \in 1..(MaxPages + 1) : Token(i).val = SubSeq(u, 3, Len(u))

PageBody(payload) == Body(<<"{chromeosdevices:", "}">>, TRUE, payload)

\* the pages the directory may serve for GET u: the page it already served
\* under that cursor, or a fresh one
PagesFor(u) ==
    IF PageIndex(u) <= Len(server) THEN {server[PageIndex(u)]}
    ELSE FreshPages(PageIndex(u))

\* the non-success answers of the directory in the pipeline
DirectoryErrors ==
    {Response(429, RateLimitBody), Response(403, RateLimitBody),
     Response(403, ForbiddenBody), Response(404, ForbiddenBody),
     Response(404, HtmlBody), Response(503, HtmlBody), Response(302, HtmlBody)}

\* a status of the terminal kind (lines 176-178) sent with a page as body:
\* get_all_chromebooks reads resp.json() whatever the status (lines 133-136)
PageStatuses == {200, 404}

\* what the directory may answer to GET u in the pipeline
DirectoryReplies(u) ==
    {TransportFailure} \cup DirectoryErrors
    \cup {Response(st, PageBody(p)) : st \in PageStatuses, p \in PagesFor(u)}

IsPage(r) == r.kind = "response" /\ r.is_json /\ r.text[1] = "{chromeosdevices:"

\* the directory remembers the page it served
Served(r) ==
    IF IsPage(r) /\ Len(server) < PageIndex(url)
    THEN Append(server, r.json)
    ELSE server

\* what any server may answer to a GET: every status code, each with a body
\* that holds the rate-limit marker and with one that does not
HttpReplies ==
    {TransportFailure}
    \cup {Response(st, b) : st \in StatusCodes, b \in {RateLimitBody, HtmlBody}}

(***************************************************************************)
(* get_all_chromebooks (lines 112-151).                                    *)
(***************************************************************************)
\* lines 125-127
get_all_chromebooks_call ==
    /\ all_devices' = <<>>
    /\ next_page' = None
    /\ page_number' = 1
    /\ calls' = <<>>
    /\ got' = <<>>

\* line 142 with the accumulator overwritten instead of extended
ExtendOverwrites(all, page) == page

\* line 142
Extend(all, page) == all \o page

\* lines 132-133: build the url and call safe_request with its defaults
collect_request ==
    /\ pc = "collect_request"
    /\ rq = "idle"
    /\ safe_request_call(BuildUrl(next_page), DefaultMaxRetries)
    /\ calls' = Append(calls, BuildUrl(next_page))
    /\ pc' = "collect_wait"
    /\ UNCHANGED <<trace, run, pairVars, server, got, all_devices, next_page, page_number, err,
                   collected, devices, tvp_rows, dbVars>>

\* line 133 with the exception caught and the pages so far returned
collect_raise_returns_partial ==
    /\ pc = "collect_wait"
    /\ rq = "raised"
    /\ pc' = "normalize"
    /\ err' = rq_err
    /\ collected' = TRUE
    /\ devices' = all_devices
    /\ safe_request_drop
    /\ UNCHANGED <<trace, run, pairVars, server, colVars, tvp_rows, dbVars>>

\* line 133: safe_request raised; nothing catches it
collect_raise ==
    /\ pc = "collect_wait"
    /\ rq = "raised"
    /\ pc' = "failed"
    /\ err' = rq_err
    /\ safe_request_drop
    /\ UNCHANGED <<trace, run, pairVars, server, colVars, collected, devices, tvp_rows, dbVars>>

\* lines 135-148: one page taken from the response safe_request returned
collect_page ==
    /\ pc = "collect_wait"
    /\ rq = "returned"
    /\ got' = Append(got, resp.status_code)
    /\ safe_request_drop
    /\ IF ~resp.is_json THEN                              \* line 135 raises
           /\ pc' = "failed"
           /\ err' = Error("JSONDecodeError", <<>>, "get_all_chromebooks")
           /\ UNCHANGED <<all_devices, next_page, page_number, collected,
                          devices>>
       ELSE LET payload == resp.json
                page_devices == Get(payload, "chromeosdevices", <<>>)
                cursor == Get(payload, "nextPageToken", None)
            IN  IF Len(page_devices) = 0 THEN             \* line 138 raises
                    /\ pc' = "failed"
                    /\ err' = Error("IndexError", <<"list index out of range">>,
                                    "get_all_chromebooks")
                    /\ UNCHANGED <<all_devices, next_page, page_number,
                                   collected, devices>>
                ELSE
                    /\ all_devices' = Extend(all_devices, page_devices)
                    /\ next_page' = cursor
                    /\ IF ~Truthy(cursor) THEN            \* lines 145-151
                           /\ pc' = "normalize"
                           /\ collected' = TRUE
                           /\ devices' = Extend(all_devices, page_devices)
                           /\ UNCHANGED page_number
                       ELSE
                           /\ pc' = "collect_request"
                           /\ page_number' = page_number + 1
                           /\ UNCHANGED <<collected, devices>>
                    /\ UNCHANGED err
    /\ UNCHANGED <<trace, run, pairVars, server, calls, tvp_rows, dbVars>>


(***************************************************************************)
(* Normalization (process_item, lines 50-72).                              *)
(***************************************************************************)
\* str.replace(old, new), part by part
Replace(parts, old, new) ==
    [i \in 1..Len(parts) |-> IF parts[i] = old THEN new ELSE parts[i]]

IsoDates == {"2024-01-15", "2023-12-31"}

IsoTimes == {"10:30:00", "23:59:59"}

IsoFractions == {".000", ".123456"}

IsoOffsets == {"+00:00", "+02:00"}

\* the calendar date an ISO date part denotes: <<year, month, day>>
DateFields(p) == IF p = "2024-01-15" THEN <<2024, 1, 15>> ELSE <<2023, 12, 31>>

Date(ymd) == [type |-> "date", year |-> ymd[1], month |-> ymd[2], day |-> ymd[3]]

\* whether datetime.fromisoformat accepts the string: a date, optionally
\* followed by a separator, a time, a fraction and a UTC offset
IsoAccepted(parts) ==
    /\ Len(parts) >= 1
    /\ parts[1] \in IsoDates
    /\ \/ Len(parts) = 1
       \/ /\ Len(parts) >= 3
          /\ parts[2] \in {"T", " "}
          /\ parts[3] \in IsoTimes
          /\ LET rest == SubSeq(parts, 4, Len(parts))
             IN  \/ rest = <<>>
                 \/ Len(rest) = 1 /\ rest[1] \in IsoFractions \cup IsoOffsets
                 \/ Len(rest) = 2 /\ rest[1] \in IsoFractions
                                  /\ rest[2] \in IsoOffsets

\* lines 51-62 with the raw value kept when it cannot be parsed
LastSyncDateKeepsRaw(d) ==
    LET last_sync_raw == Get(d, "lastSync", None)
    IN  IF ~Truthy(last_sync_raw) THEN None
        ELSE IF last_sync_raw.type # "str" THEN last_sync_raw
        ELSE LET text == Replace(last_sync_raw.val, "Z", "+00:00")
             IN  IF IsoAccepted(text) THEN Date(DateFields(text[1]))
                 ELSE last_sync_raw

\* lines 51-62; a value that is no str has no replace method: the
\* AttributeError is raised inside the try block and swallowed like the
\* ValueError of fromisoformat
LastSyncDate(d) ==
    LET last_sync_raw == Get(d, "lastSync", None)
    IN  IF ~Truthy(last_sync_raw) THEN None
        ELSE IF last_sync_raw.type # "str" THEN None      \* except: pass
        ELSE LET text == Replace(last_sync_raw.val, "Z", "+00:00")
             IN  IF IsoAccepted(text) THEN Date(DateFields(text[1]))
                 ELSE None                                \* except: pass

\* x or None with the fallback lost
OrNoneKeeps(v) == v

\* x or None
OrNone(v) == IF Truthy(v) THEN v ELSE None

\* lines 64-72: the tuple, by the column each position is inserted into
NormalizeRow(d) ==
    [device_id     |-> Get(d, "deviceId", None),
     serial_number |-> Get(d, "serialNumber", None),
     mac_address   |-> OrNone(Get(d, "macAddress", None)),
     model         |-> OrNone(Get(d, "model", None)),
     status        |-> Get(d, "status", None),
     last_sync     |-> LastSyncDate(d),
     org_unit      |-> Get(d, "orgUnitPath", None)]

\* lines 50-72 over the whole list
NormalizeAll(ds) == [i \in 1..Len(ds) |-> NormalizeRow(ds[i])]

(***************************************************************************)
(* process_item (lines 21-109).                                            *)
(***************************************************************************)
\* lines 24-48 with the failure of the token fetch caught: the run goes on
acquire_credentials_ignores_token ==
    /\ pc = "start"
    /\ \E args_ok \in BOOLEAN, key_set \in BOOLEAN, token_ok \in BOOLEAN :
         IF ~args_ok THEN
             /\ pc' = "failed"
             /\ err' = Error("AssertionError", <<"Item data is required">>,
                             "process_item")
             /\ UNCHANGED colVars
         ELSE IF ~key_set THEN
             /\ pc' = "failed"
             /\ err' = Error("RuntimeError",
                             <<"Environment variable GOOGLE_DLP_KEY is not set">>,
                             "process_item")
             /\ UNCHANGED colVars
         ELSE IF ~token_ok THEN
             /\ pc' = "collect_request"
             /\ get_all_chromebooks_call
             /\ err' = Error("Exception", <<>>, "GoogleTokenFetcher")
         ELSE
             /\ pc' = "collect_request"                   \* line 48
             /\ get_all_chromebooks_call
             /\ UNCHANGED err
    /\ UNCHANGED <<trace, run, pairVars, server, reqVars, collected, devices, tvp_rows, dbVars>>

\* lines 24-44: argument checks, key path, constants, OAuth token
acquire_credentials ==
    /\ pc = "start"
    /\ \E args_ok \in BOOLEAN, key_set \in BOOLEAN, token_ok \in BOOLEAN :
         IF ~args_ok THEN
             /\ pc' = "failed"
             /\ err' = Error("AssertionError", <<"Item data is required">>,
                             "process_item")
             /\ UNCHANGED colVars
         ELSE IF ~key_set THEN
             /\ pc' = "failed"
             /\ err' = Error("RuntimeError",
                             <<"Environment variable GOOGLE_DLP_KEY is not set">>,
                             "process_item")
             /\ UNCHANGED colVars
         ELSE IF ~token_ok THEN
             /\ pc' = "failed"
             /\ err' = Error("Exception", <<>>, "GoogleTokenFetcher")
             /\ UNCHANGED colVars
         ELSE
             /\ pc' = "collect_request"                   \* line 48
             /\ get_all_chromebooks_call
             /\ UNCHANGED err
    /\ UNCHANGED <<trace, run, pairVars, server, reqVars, collected, devices, tvp_rows, dbVars>>

\* line 133 while safe_request runs against the directory
directory_attempt ==
    /\ pc = "collect_wait"
    /\ safe_request_attempt(DirectoryReplies(url))
    /\ server' = Served(resp')
    /\ UNCHANGED <<trace, run, pairVars, colVars, runVars, dbVars>>

\* lines 50-74
normalize ==
    /\ pc = "normalize"
    /\ tvp_rows' = NormalizeAll(devices)
    /\ pc' = "open_session"
    /\ UNCHANGED <<trace, run, pairVars, server, reqVars, colVars, err, collected, devices, dbVars>>

StorageError(at) == Error("StorageError", <<>>, at)

\* line 79: RPAConnection(db_env="PROD", commit=True).__enter__
open_session ==
    /\ pc = "open_session"
    /\ \/ /\ session' = "open"
          /\ pc' = "create_temp"
          /\ UNCHANGED err
       \/ /\ pc' = "failed"
          /\ err' = StorageError("RPAConnection")
          /\ UNCHANGED session
    /\ UNCHANGED <<trace, run, pairVars, server, reqVars, colVars, collected, devices, tvp_rows,
                   temp_table, staged, finalized, seen_by_sp, committed,
                   reconciled, permanent>>

\* lines 86-96: CREATE TABLE #ChromebookTemp
create_temp ==
    /\ pc = "create_temp"
    /\ \/ /\ temp_table' = TRUE
          /\ pc' = "bulk_insert"
          /\ UNCHANGED err
       \/ /\ pc' = "rollback"
          /\ err' = StorageError("create_temp")
          /\ UNCHANGED temp_table
    /\ UNCHANGED <<trace, run, pairVars, server, reqVars, colVars, collected, devices, tvp_rows,
                   session, staged, finalized, seen_by_sp, committed,
                   reconciled, permanent>>

\* line 88 with device_id declared NULL like the other columns
RejectedNever(row) == FALSE

\* line 88: device_id NVARCHAR(300) NOT NULL; every other column is NULL-able
Rejected(row) == row.device_id = None

\* the rows of the batch that precede the first rejected one
Insertable(rows) ==
    IF \E i \in 1..Len(rows) : Rejected(rows[i])
    THEN (CHOOSE i \in 1..Len(rows) :
              Rejected(rows[i]) /\ \A j \in 1..(i - 1) : ~Rejected(rows[j])) - 1
    ELSE Len(rows)

\* lines 99-103 with the exception of executemany caught: the run goes on
bulk_insert_swallows ==
    /\ pc = "bulk_insert"
    /\ \/ /\ Insertable(tvp_rows) = Len(tvp_rows)
          /\ staged' = staged \o tvp_rows
          /\ pc' = "finalize"
          /\ UNCHANGED err
       \/ \E k \in 0..Insertable(tvp_rows) :
            /\ staged' = staged \o SubSeq(tvp_rows, 1, k)
            /\ pc' = "finalize"
            /\ err' = StorageError("bulk_insert")
    /\ UNCHANGED <<trace, run, pairVars, server, reqVars, colVars, collected, devices, tvp_rows,
                   session, temp_table, finalized, seen_by_sp, committed,
                   reconciled, permanent>>

\* lines 99-103: executemany; it ends with every row staged, or raises with
\* some of the rows before the failing one staged in the open transaction
bulk_insert ==
    /\ pc = "bulk_insert"
    /\ \/ /\ Insertable(tvp_rows) = Len(tvp_rows)
          /\ staged' = staged \o tvp_rows
          /\ pc' = "finalize"
          /\ UNCHANGED err
       \/ \E k \in 0..Insertable(tvp_rows) :
            /\ staged' = staged \o SubSeq(tvp_rows, 1, k)
            /\ pc' = "rollback"
            /\ err' = StorageError("bulk_insert")
    /\ UNCHANGED <<trace, run, pairVars, server, reqVars, colVars, collected, devices, tvp_rows,
                   session, temp_table, finalized, seen_by_sp, committed,
                   reconciled, permanent>>

\* rpa.sp_upsert_chromebooks: staged rows replace the rows of the same device
Upsert(table, rows) ==
    {r \in table : \A i \in 1..Len(rows) : rows[i].device_id # r.device_id}
    \cup {rows[i] : i \in {j \in 1..Len(rows) :
                             \A l \in (j + 1)..Len(rows) :
                                 rows[l].device_id # rows[j].device_id}}

\* line 107 with the exception of the EXEC caught: the with block ends
\* normally
finalize_swallows ==
    /\ pc = "finalize"
    /\ finalized' = finalized + 1
    /\ seen_by_sp' = Append(seen_by_sp, staged)
    /\ \/ /\ reconciled' = Upsert(reconciled, staged)
          /\ pc' = "exit"
          /\ UNCHANGED err
       \/ /\ pc' = "exit"
          /\ err' = StorageError("finalize")
          /\ UNCHANGED reconciled
    /\ UNCHANGED <<trace, run, pairVars, server, reqVars, colVars, collected, devices, tvp_rows,
                   session, temp_table, staged, committed, permanent>>

\* line 107: EXEC rpa.sp_upsert_chromebooks
finalize ==
    /\ pc = "finalize"
    /\ finalized' = finalized + 1
    /\ seen_by_sp' = Append(seen_by_sp, staged)
    /\ \/ /\ reconciled' = Upsert(reconciled, staged)
          /\ pc' = "exit"
          /\ UNCHANGED err
       \/ /\ pc' = "rollback"
          /\ err' = StorageError("finalize")
          /\ UNCHANGED reconciled
    /\ UNCHANGED <<trace, run, pairVars, server, reqVars, colVars, collected, devices, tvp_rows,
                   session, temp_table, staged, committed, permanent>>

\* line 79, leaving the with block normally, with a connection that is kept
\* open after the commit: #ChromebookTemp and its rows stay
exit_commit_keeps_temp ==
    /\ pc = "exit"
    /\ committed' = TRUE
    /\ permanent' = reconciled
    /\ session' = "closed"
    /\ pc' = "done"
    /\ UNCHANGED <<trace, run, pairVars, server, reqVars, colVars, err, collected,
                   devices, tvp_rows, temp_table, staged, finalized, seen_by_sp,
                   reconciled>>

\* line 79, leaving the with block normally: commit, close (the contract of
\* RPAConnection.__exit__, whose code is in mbu_dev_shared_components)
exit_commit ==
    /\ pc = "exit"
    /\ committed' = TRUE
    /\ permanent' = reconciled
    /\ session' = "closed"
    /\ temp_table' = FALSE
    /\ staged' = <<>>
    /\ pc' = "done"                                       \* line 109
    /\ UNCHANGED <<trace, run, pairVars, server, reqVars, colVars, err, collected, devices, tvp_rows,
                   finalized, seen_by_sp, reconciled>>

\* line 79, leaving the with block on an exception: roll back, close (the
\* contract of RPAConnection.__exit__); closing drops #ChromebookTemp
exit_rollback ==
    /\ pc = "rollback"
    /\ reconciled' = permanent
    /\ session' = "closed"
    /\ temp_table' = FALSE
    /\ staged' = <<>>
    /\ pc' = "failed"
    /\ UNCHANGED <<trace, run, pairVars, server, reqVars, colVars, err, collected, devices, tvp_rows,
                   finalized, seen_by_sp, committed, permanent>>

(***************************************************************************)
(* The run of process_item against a directory.                            *)
(***************************************************************************)
\* a row an earlier run left in the permanent table
OldRowA == [NormalizeRow(DeviceA) EXCEPT !.status = Str(<<"PROVISIONED">>)]

\* one call of process_item, no overlapping loaders
NoPair ==
    /\ run = 1
    /\ ld_pc = <<"none", "none">>
    /\ ld_rows = << <<>>, <<>> >>
    /\ ld_seen = << <<>>, <<>> >>
    /\ tempdb = [k \in {} |-> <<>>]

IdleRun ==
    /\ err = NoError
    /\ calls = <<>>
    /\ got = <<>>
    /\ all_devices = <<>>
    /\ next_page = None
    /\ page_number = 0
    /\ collected = FALSE
    /\ devices = <<>>
    /\ tvp_rows = <<>>
    /\ rq = "idle"
    /\ url = <<>>
    /\ max_retries = 0
    /\ attempt = 0
    /\ backoff = 0
    /\ resp = NoResp
    /\ requests = 0
    /\ slept = <<>>
    /\ sleep_for = 0
    /\ rq_err = NoError
    /\ session = "none"
    /\ temp_table = FALSE
    /\ staged = <<>>
    /\ finalized = 0
    /\ seen_by_sp = <<>>
    /\ committed = FALSE
    /\ trace = <<>>

Idle == IdleRun /\ NoPair

Init ==
    /\ server = <<>>
    /\ pc = "start"
    /\ permanent = {OldRowA}
    /\ reconciled = permanent
    /\ Idle

Next ==
    \/ acquire_credentials
    \/ collect_request
    \/ directory_attempt
    \/ collect_raise
    \/ collect_page
    \/ normalize
    \/ open_session
    \/ create_temp
    \/ bulk_insert
    \/ finalize
    \/ exit_commit
    \/ exit_rollback

Spec == Init /\ [][Next]_vars

\* line 21: process_item is called again after a run that succeeded, against
\* the same directory and the same database; the locals of the earlier call
\* are gone
process_item_again ==
    /\ pc = "done"
    /\ run < MaxRuns
    /\ run' = run + 1
    /\ pc' = "start"
    /\ err' = NoError
    /\ calls' = <<>>
    /\ got' = <<>>
    /\ all_devices' = <<>>
    /\ next_page' = None
    /\ page_number' = 0
    /\ collected' = FALSE
    /\ devices' = <<>>
    /\ tvp_rows' = <<>>
    /\ session' = "none"
    /\ committed' = FALSE
    /\ UNCHANGED <<trace, pairVars, server, reqVars, temp_table, staged,
                   finalized, seen_by_sp, reconciled, permanent>>

NextTwice ==
    \/ Next
    \/ process_item_again

\* runs of process_item one after the other
SpecTwice == Init /\ [][NextTwice]_vars

(***************************************************************************)
(* Two calls of process_item whose loading stages (lines 79-107) overlap,  *)
(* each on its own connection to the same database.                        *)
(***************************************************************************)
Loaders == {1, 2}

\* line 86: the name of the staging table
TempName == <<"#", "ChromebookTemp">>

\* the name taken as that of a table every session shares
ResolveShared(sid, name) == [owner |-> 0, name |-> name]

\* the table a name stands for in session sid: a name that starts with # is
\* that of a temporary table of the session itself
Resolve(sid, name) ==
    IF name[1] = "#" THEN [owner |-> sid, name |-> name]
    ELSE [owner |-> 0, name |-> name]

\* the batches a loader may have to stage
LoaderBatches == {NormalizeAll(l) : l \in PageLists(MaxBatch) \ {<<>>}}

\* line 79: RPAConnection(db_env="PROD", commit=True).__enter__
loader_open(l) ==
    /\ ld_pc[l] = "open_session"
    /\ ld_pc' = [ld_pc EXCEPT ![l] = "create_temp"]
    /\ UNCHANGED <<ld_rows, ld_seen, tempdb>>

\* lines 86-96: CREATE TABLE #ChromebookTemp; it fails when the name stands
\* for a table that exists
loader_create_temp(l) ==
    /\ ld_pc[l] = "create_temp"
    /\ LET key == Resolve(l, TempName)
       IN  IF key \in DOMAIN tempdb
           THEN /\ ld_pc' = [ld_pc EXCEPT ![l] = "rollback"]
                /\ UNCHANGED tempdb
           ELSE /\ ld_pc' = [ld_pc EXCEPT ![l] = "bulk_insert"]
                /\ tempdb' = (key :> <<>>) @@ tempdb
    /\ UNCHANGED <<ld_rows, ld_seen>>

\* lines 99-103: INSERT INTO #ChromebookTemp of every row, or of the rows
\* before the first that the table rejects
loader_bulk_insert(l) ==
    /\ ld_pc[l] = "bulk_insert"
    /\ LET key == Resolve(l, TempName)
       IN  IF Insertable(ld_rows[l]) = Len(ld_rows[l])
           THEN /\ tempdb' = [tempdb EXCEPT ![key] = @ \o ld_rows[l]]
                /\ ld_pc' = [ld_pc EXCEPT ![l] = "finalize"]
           ELSE \E k \in 0..Insertable(ld_rows[l]) :
                  /\ tempdb' = [tempdb EXCEPT
                                  ![key] = @ \o SubSeq(ld_rows[l], 1, k)]
                  /\ ld_pc' = [ld_pc EXCEPT ![l] = "rollback"]
    /\ UNCHANGED <<ld_rows, ld_seen>>

\* line 107: EXEC rpa.sp_upsert_chromebooks; the procedure reads
\* #ChromebookTemp in the session that calls it
loader_finalize(l) ==
    /\ ld_pc[l] = "finalize"
    /\ ld_seen' = [ld_seen EXCEPT ![l] = tempdb[Resolve(l, TempName)]]
    /\ ld_pc' = [ld_pc EXCEPT ![l] = "exit"]
    /\ UNCHANGED <<ld_rows, tempdb>>

\* line 79, leaving the with block: the connection is closed, and the
\* temporary tables of its session go with it
loader_exit(l) ==
    /\ ld_pc[l] \in {"exit", "rollback"}
    /\ ld_pc' = [ld_pc EXCEPT ![l] = IF ld_pc[l] = "exit" THEN "done"
                                     ELSE "failed"]
    /\ tempdb' = [key \in {k \in DOMAIN tempdb : k.owner # l} |-> tempdb[key]]
    /\ UNCHANGED <<ld_rows, ld_seen>>

InitPair ==
    /\ server = <<>>
    /\ pc = "loaders"
    /\ permanent = {}
    /\ reconciled = {}
    /\ IdleRun
    /\ run = 1
    /\ ld_pc = <<"open_session", "open_session">>
    /\ ld_rows \in [Loaders -> LoaderBatches]
    /\ ld_seen = << <<>>, <<>> >>
    /\ tempdb = [k \in {} |-> <<>>]

NextPair ==
    /\ \E l \in Loaders :
          \/ loader_open(l)
          \/ loader_create_temp(l)
          \/ loader_bulk_insert(l)
          \/ loader_finalize(l)
          \/ loader_exit(l)
    /\ UNCHANGED <<server, reqVars, colVars, runVars, dbVars, trace, run>>

SpecPair == InitPair /\ [][NextPair]_vars

(***************************************************************************)
(* safe_request on its own: called with any max_retries against any server.*)
(***************************************************************************)
InitReq ==
    /\ server = <<>>
    /\ pc = "harness"
    /\ permanent = {}
    /\ reconciled = {}
    /\ Idle

\* line 154: a call with an explicit max_retries
harness_call ==
    /\ pc = "harness"
    /\ rq = "idle"
    /\ \E mr \in (-1)..MaxRetries : safe_request_call(BuildUrl(None), mr)
    /\ UNCHANGED <<trace, run, pairVars, server, colVars, runVars, dbVars>>

harness_attempt ==
    /\ pc = "harness"
    /\ safe_request_attempt(HttpReplies)
    /\ trace' = Append(trace, resp')
    /\ UNCHANGED <<server, colVars, runVars, dbVars, run, pairVars>>

harness_fell_through ==
    /\ pc = "harness"
    /\ safe_request_fell_through
    /\ UNCHANGED <<trace, run, pairVars, server, colVars, runVars, dbVars>>

NextReq ==
    \/ harness_call
    \/ harness_attempt
    \/ harness_fell_through

SpecReq == InitReq /\ [][NextReq]_vars

\* the interpreter keeps executing a call that has started: requests.get
\* returns or raises within its timeout (line 161) and time.sleep returns
SpecReqLive ==
    /\ InitReq
    /\ [][NextReq]_vars
    /\ WF_vars(harness_attempt)
    /\ WF_vars(harness_fell_through)


(***************************************************************************)
(* Properties of safe_request, checked under SpecReq.  The outcome classes *)
(* below are stated from the contract, independently of Classify.          *)
(***************************************************************************)
IsSuccess(r) ==
    r.kind = "response" /\ r.status_code >= 200 /\ r.status_code < 300

HasMarker(r) == \E i \in 1..Len(r.text) : r.text[i] = "rateLimitExceeded"

IsRetryable(r) ==
    \/ r.kind = "RequestException"
    \/ /\ r.kind = "response"
       /\ \/ r.status_code = 429
          \/ r.status_code = 403 /\ HasMarker(r)
          \/ r.status_code >= 500 /\ r.status_code < 600

RECURSIVE Pow2(_)
Pow2(n) == IF n = 0 THEN 1 ELSE 2 * Pow2(n - 1)

\* C3: when the first k outcomes of a call (0 <= k < max_retries) are all
\* retryable and outcome k+1 is a 2xx response, the call has returned that
\* response after exactly k+1 requests and exactly k sleeps, and the base of
\* the j-th sleep is 2^(j-1): each base is double the one before.
C3_RetryThenSuccess ==
    (/\ trace # <<>>
     /\ Len(trace) <= max_retries
     /\ IsSuccess(trace[Len(trace)])
     /\ \A i \in 1..(Len(trace) - 1) : IsRetryable(trace[i]))
    => /\ rq = "returned"
       /\ resp = trace[Len(trace)]
       /\ requests = Len(trace)
       /\ Len(slept) = Len(trace) - 1
       /\ \A j \in 1..Len(slept) : slept[j] = Pow2(j - 1)
       /\ \A j \in 2..Len(slept) : slept[j] = 2 * slept[j - 1]

\* C3 witness: 503, 503, 503, then 200: returned after three sleeps
C3_Witness ==
    /\ rq = "returned"
    /\ Len(trace) = 4
    /\ \A i \in 1..3 : trace[i].kind = "response" /\ trace[i].status_code = 503
    /\ trace[4].kind = "response" /\ trace[4].status_code = 200
    /\ slept = <<1, 2, 4>>

\* C4: a 2xx response is always the last outcome of its call: the call has
\* returned that very response, no request follows it, and the pass that
\* received it did not sleep; a 2xx on the first attempt means one request
\* and no sleep at all.
C4_SuccessReturnsAtOnce ==
    \A i \in 1..Len(trace) :
        IsSuccess(trace[i])
        => /\ i = Len(trace)
           /\ rq = "returned"
           /\ resp = trace[i]
           /\ requests = i
           /\ Len(slept) <= i - 1
           /\ rq_err = NoError
           /\ (i = 1 => requests = 1 /\ slept = <<>> /\ sleep_for = 0)

\* C4 witness: a 204 on the first attempt, returned
C4_Witness ==
    /\ rq = "returned"
    /\ Len(trace) = 1
    /\ trace[1].kind = "response" /\ trace[1].status_code = 204
    /\ requests = 1

\* C5: a 403 without the rate-limit marker is the last outcome of its call,
\* returned as it is, with no sleep after it, no further request and nothing
\* raised; a 403 with the marker is never returned: the call sleeps and goes
\* on, or fails as exhausted when it was the last attempt.
C5_Forbidden ==
    \A i \in 1..Len(trace) :
        (trace[i].kind = "response" /\ trace[i].status_code = 403)
        => IF ~HasMarker(trace[i])
           THEN /\ i = Len(trace)
                /\ rq = "returned"
                /\ resp = trace[i]
                /\ requests = i
                /\ Len(slept) <= i - 1
                /\ rq_err = NoError
           ELSE /\ ~(rq = "returned" /\ resp = trace[i])
                /\ (i < max_retries => Len(slept) >= i)
                /\ (i = max_retries => rq = "raised")

\* C5 witness: a marked 403 was retried and the unmarked 403 that followed it
\* was returned
C5_Witness ==
    /\ rq = "returned"
    /\ Len(trace) = 2
    /\ trace[1].kind = "response" /\ trace[1].status_code = 403
    /\ HasMarker(trace[1])
    /\ trace[2].kind = "response" /\ trace[2].status_code = 403
    /\ ~HasMarker(trace[2])
    /\ slept = <<1>>

\* C6: when all max_retries outcomes (max_retries >= 1) of a call are
\* retryable, the call has failed with the error that names the attempt count
\* and the url, after exactly max_retries requests; and that error is raised
\* only when the last of max_retries outcomes was retryable.
C6_RetryExhausted ==
    /\ (/\ max_retries >= 1
        /\ Len(trace) = max_retries
        /\ \A i \in 1..Len(trace) : IsRetryable(trace[i]))
       => /\ rq = "raised"
          /\ rq_err.type = "RuntimeError"
          /\ rq_err.msg = <<"Failed after ", ToString(max_retries), " attempts: ">>
                          \o url
          /\ requests = max_retries
    /\ (rq = "raised" /\ rq_err.msg # <<>> /\ rq_err.msg[1] = "Failed after ")
       => /\ max_retries >= 1
          /\ Len(trace) = max_retries
          /\ requests = max_retries
          /\ IsRetryable(trace[Len(trace)])
          /\ ~IsSuccess(trace[Len(trace)])

\* C6 witness: three attempts, all retryable, the last a transport failure
C6_Witness ==
    /\ rq = "raised"
    /\ max_retries = 3
    /\ Len(trace) = 3
    /\ trace[3] = TransportFailure
    /\ rq_err.msg # <<>> /\ rq_err.msg[1] = "Failed after "


(***************************************************************************)
(* Normalization on its own: one device record with any combination of     *)
(* absent, null, empty and filled fields.                                  *)
(***************************************************************************)
FieldValues == {None, Str(<<>>), Str(<<"x">>)}

LastSyncValues ==
    {None, Str(<<>>),
     Str(<<"2024-01-15", "T", "10:30:00", ".000", "Z">>),
     Str(<<"2023-12-31", "T", "23:59:59", "+02:00">>),
     Str(<<"2024-01-15">>),
     Str(<<"yesterday">>),
     Str(<<"2024-01-15", "T">>),
     Str(<<"2024-01-15", "T", "10:30:00", "Z", "Z">>),
     PyInt(1705314600)}

RawDevices ==
    {a @@ b :
        a \in UNION {[K -> FieldValues] : K \in SUBSET (DeviceKeys \ {"lastSync"})},
        b \in {[k \in {} |-> None]}
              \cup {[k \in {"lastSync"} |-> v] : v \in LastSyncValues}}

InitNorm ==
    /\ server = <<>>
    /\ pc = "normalize"
    /\ permanent = {}
    /\ reconciled = {}
    /\ err = NoError
    /\ calls = <<>>
    /\ got = <<>>
    /\ all_devices = <<>>
    /\ next_page = None
    /\ page_number = 0
    /\ collected = TRUE
    /\ devices \in {<<d>> : d \in RawDevices}
    /\ tvp_rows = <<>>
    /\ rq = "idle"
    /\ url = <<>>
    /\ max_retries = 0
    /\ attempt = 0
    /\ backoff = 0
    /\ resp = NoResp
    /\ requests = 0
    /\ slept = <<>>
    /\ sleep_for = 0
    /\ rq_err = NoError
    /\ session = "none"
    /\ temp_table = FALSE
    /\ staged = <<>>
    /\ finalized = 0
    /\ seen_by_sp = <<>>
    /\ committed = FALSE
    /\ trace = <<>>
    /\ NoPair

NextNorm == normalize

SpecNorm == InitNorm /\ [][NextNorm]_vars

(***************************************************************************)
(* Properties of get_all_chromebooks and process_item, checked under Spec. *)
(***************************************************************************)
\* the directory has served its whole chain: the last page has no cursor
ChainServed ==
    /\ server # <<>>
    /\ "nextPageToken" \notin DOMAIN server[Len(server)]

\* every response safe_request handed to get_all_chromebooks was a 2xx
OnlySuccessesTaken ==
    \A i \in 1..Len(got) : got[i] >= 200 /\ got[i] < 300

\* C1: for every finite chain of pages, get_all_chromebooks returns exactly the
\* concatenation of the pages' device lists in page order, after calling
\* safe_request exactly once per page, page i+1 with the cursor of page i: so
\* when every response it took was a success it does not fail, and when it
\* has returned the result is that concatenation.
C1_AllPagesConcatenated ==
    /\ collected
       => /\ ChainServed
          /\ devices = AllRecords(server)
          /\ Len(calls) = Len(server)
          /\ calls[1] = <<BaseUrl>>
          /\ \A i \in 2..Len(calls) :
                calls[i] = <<BaseUrl, "&pageToken=">> \o server[i - 1]["nextPageToken"].val
    /\ (pc = "failed" /\ OnlySuccessesTaken) => err.at # "get_all_chromebooks"

\* C2: a page with an empty or missing device list and a cursor does not stop
\* the collector or make it fail: once it has taken such a page i, it is about
\* to request, or has requested, page i+1 with that cursor.
C2_EmptyPageContinues ==
    \A i \in 1..Len(got) :
        (/\ got[i] = 200
         /\ i <= Len(server)
         /\ "nextPageToken" \in DOMAIN server[i]
         /\ Get(server[i], "chromeosdevices", <<>>) = <<>>)
        => /\ err.at # "get_all_chromebooks"
           /\ \/ pc = "collect_request" /\ next_page = server[i]["nextPageToken"]
              \/ /\ Len(calls) > i
                 /\ calls[i + 1] = <<BaseUrl, "&pageToken=">>
                                   \o server[i]["nextPageToken"].val

\* C7: when safe_request has raised while a page was fetched, the run has
\* failed with that very error and get_all_chromebooks has returned nothing:
\* the records of the earlier pages are not returned, not normalized, and
\* nothing is staged, reconciled or committed.
C7_FailureDiscardsPartial ==
    err.at = "safe_request"
    => /\ pc = "failed"
       /\ err = Error("RuntimeError",
                      <<"Failed after ", ToString(DefaultMaxRetries), " attempts: ">>
                      \o calls[Len(calls)], "safe_request")
       /\ ~collected
       /\ devices = <<>>
       /\ tvp_rows = <<>>
       /\ session = "none"
       /\ ~temp_table
       /\ staged = <<>>
       /\ finalized = 0
       /\ ~committed
       /\ reconciled = {OldRowA}
       /\ permanent = {OldRowA}

\* C7 witness: the fetch of page 2 failed after page 1 had been accumulated
C7_Witness ==
    /\ pc = "failed"
    /\ err.at = "safe_request"
    /\ Len(calls) = 2
    /\ Len(all_devices) = 2
    /\ devices = <<>>

\* C8: when the finalize procedure is about to be invoked, the staging table
\* holds exactly one row per device record of all pages served, row i being
\* the row of record i, and the procedure has not run yet; a run that ends
\* successfully has invoked it exactly once, on those rows; no run invokes it
\* twice.
C8_StagedOnePerRecord ==
    /\ finalized <= 1
    /\ pc = "finalize"
       => /\ temp_table
          /\ finalized = 0
          /\ ChainServed
          /\ Len(staged) = Len(AllRecords(server))
          /\ \A i \in 1..Len(staged) : staged[i] = NormalizeRow(AllRecords(server)[i])
    /\ pc = "done"
       => /\ finalized = 1
          /\ Len(seen_by_sp) = 1
          /\ Len(seen_by_sp[1]) = Len(AllRecords(server))
          /\ \A i \in 1..Len(seen_by_sp[1]) :
                seen_by_sp[1][i] = NormalizeRow(AllRecords(server)[i])

\* C8 witness: two pages, of two records and of one, three rows seen by the
\* one finalize call of a successful run
C8_Witness ==
    /\ pc = "done"
    /\ Len(server) = 2
    /\ Len(server[1]["chromeosdevices"]) = 2
    /\ Len(server[2]["chromeosdevices"]) = 1
    /\ finalized = 1
    /\ Len(seen_by_sp[1]) = 3
    /\ seen_by_sp[1][1] # seen_by_sp[1][2]

\* C9: when the bulk insert has failed, the finalize procedure is never
\* invoked, the session is never committed and the permanent table is left as
\* it was; once the session has ended the staging table is gone and no row
\* of the run is staged or reconciled.
C9_InsertFailureRollsBack ==
    err.at = "bulk_insert"
    => /\ pc \in {"rollback", "failed"}
       /\ finalized = 0
       /\ seen_by_sp = <<>>
       /\ ~committed
       /\ permanent = {OldRowA}
       /\ pc = "failed"
          => /\ session = "closed"
             /\ ~temp_table
             /\ staged = <<>>
             /\ reconciled = {OldRowA}

\* C9 witness: the batch failed at its second row, which has no device_id,
\* and the session has ended
C9_Witness ==
    /\ pc = "failed"
    /\ err.at = "bulk_insert"
    /\ Len(tvp_rows) = 3
    /\ tvp_rows[1].device_id # None
    /\ tvp_rows[2].device_id = None
    /\ session = "closed"

(***************************************************************************)
(* Properties of the normalization, checked under SpecNorm.                *)
(***************************************************************************)
\* the raw field is absent, or its value is falsy
AbsentOrFalsy(d, k) == k \notin DOMAIN d \/ d[k] = None \/ d[k] = Str(<<>>)

\* C10: each of the five optional string fields of a normalized row is None
\* whenever the raw field is absent or falsy, and no row carries an empty
\* string in any of them.
C10_NoEmptyStrings ==
    \A i \in 1..Len(tvp_rows) :
        /\ AbsentOrFalsy(devices[i], "serialNumber") => tvp_rows[i].serial_number = None
        /\ AbsentOrFalsy(devices[i], "macAddress") => tvp_rows[i].mac_address = None
        /\ AbsentOrFalsy(devices[i], "model") => tvp_rows[i].model = None
        /\ AbsentOrFalsy(devices[i], "status") => tvp_rows[i].status = None
        /\ AbsentOrFalsy(devices[i], "orgUnitPath") => tvp_rows[i].org_unit = None
        /\ tvp_rows[i].serial_number # Str(<<>>)
        /\ tvp_rows[i].mac_address # Str(<<>>)
        /\ tvp_rows[i].model # Str(<<>>)
        /\ tvp_rows[i].status # Str(<<>>)
        /\ tvp_rows[i].org_unit # Str(<<>>)

\* C10 as amended: mac_address and model are None whenever the raw field is
\* absent or falsy and never an empty string; serial_number, status and
\* org_unit are None whenever the raw field is absent or null and otherwise
\* the raw value as it is, so that an empty raw string stays an empty string.
C10_OnlyMacAndModelDefaulted ==
    \A i \in 1..Len(tvp_rows) :
        /\ AbsentOrFalsy(devices[i], "macAddress") => tvp_rows[i].mac_address = None
        /\ AbsentOrFalsy(devices[i], "model") => tvp_rows[i].model = None
        /\ tvp_rows[i].mac_address # Str(<<>>)
        /\ tvp_rows[i].model # Str(<<>>)
        /\ ~AbsentOrFalsy(devices[i], "macAddress")
           => tvp_rows[i].mac_address = devices[i]["macAddress"]
        /\ ~AbsentOrFalsy(devices[i], "model")
           => tvp_rows[i].model = devices[i]["model"]
        /\ tvp_rows[i].serial_number =
              IF "serialNumber" \in DOMAIN devices[i]
              THEN devices[i]["serialNumber"] ELSE None
        /\ tvp_rows[i].status =
              IF "status" \in DOMAIN devices[i] THEN devices[i]["status"] ELSE None
        /\ tvp_rows[i].org_unit =
              IF "orgUnitPath" \in DOMAIN devices[i]
              THEN devices[i]["orgUnitPath"] ELSE None

\* C10 witness: an empty macAddress became None while the empty serialNumber
\* of the same record stayed an empty string
C10_Witness ==
    /\ Len(tvp_rows) = 1
    /\ "macAddress" \in DOMAIN devices[1]
    /\ devices[1]["macAddress"] = Str(<<>>)
    /\ tvp_rows[1].mac_address = None
    /\ "serialNumber" \in DOMAIN devices[1]
    /\ devices[1]["serialNumber"] = Str(<<>>)
    /\ tvp_rows[1].serial_number = Str(<<>>)


\* the raw timestamps that are well formed, and the date each denotes
WellFormedStamps ==
    {Str(<<"2024-01-15", "T", "10:30:00", ".000", "Z">>),
     Str(<<"2023-12-31", "T", "23:59:59", "+02:00">>),
     Str(<<"2024-01-15">>)}

\* the record d with its lastSync set to v
WithLastSync(d, v) ==
    [k \in DOMAIN d \cup {"lastSync"} |-> IF k = "lastSync" THEN v ELSE d[k]]

OtherFields == {"device_id", "serial_number", "mac_address", "model", "status",
                "org_unit"}

\* C11: for a record whose raw lastSync is absent or is not a well-formed
\* timestamp, the normalization does not fail, the row is emitted with
\* last_sync = None, and its six other fields are those of the row of the
\* same record with a well-formed lastSync.
C11_BadTimestampDegradesField ==
    pc = "open_session"
    => /\ err = NoError
       /\ Len(tvp_rows) = Len(devices)
       /\ \A i \in 1..Len(devices) :
             ("lastSync" \notin DOMAIN devices[i]
              \/ devices[i]["lastSync"] \notin WellFormedStamps)
             => /\ tvp_rows[i].last_sync = None
                /\ \A w \in WellFormedStamps :
                      /\ NormalizeRow(WithLastSync(devices[i], w)).last_sync # None
                      /\ \A f \in OtherFields :
                            tvp_rows[i][f] = NormalizeRow(WithLastSync(devices[i], w))[f]

\* C11 witness: a record with every other field filled and an unparsable
\* lastSync has been normalized
C11_Witness ==
    /\ pc = "open_session"
    /\ Len(tvp_rows) = 1
    /\ DOMAIN devices[1] = DeviceKeys
    /\ devices[1]["lastSync"] = Str(<<"yesterday">>)
    /\ tvp_rows[1].last_sync = None
    /\ \A f \in OtherFields : tvp_rows[1][f] = Str(<<"x">>)


\* a response that is neither a success nor one of the retried kinds
IsOtherStatus(r) ==
    /\ r.kind = "response"
    /\ \/ r.status_code >= 400 /\ r.status_code < 500
          /\ r.status_code \notin {429, 403}
       \/ r.status_code < 200
       \/ r.status_code >= 300 /\ r.status_code < 400
       \/ r.status_code >= 600

\* C13: a response with a 4xx status other than 429 and 403, or with a
\* status below 200, in 300..399 or from 600 on, is the last outcome of its
\* call: the call has returned that very response on the attempt that
\* received it, nothing is raised, that attempt did not sleep, and no
\* request follows it.
C13_OtherStatusReturnedAsIs ==
    \A i \in 1..Len(trace) :
        IsOtherStatus(trace[i])
        => /\ i = Len(trace)
           /\ rq = "returned"
           /\ resp = trace[i]
           /\ rq_err = NoError
           /\ requests = i
           /\ attempt = i
           /\ Len(slept) = i - 1

\* C13 witness: a 503 was retried, then a 404 came and was returned
C13_Witness ==
    /\ rq = "returned"
    /\ Len(trace) = 2
    /\ trace[1].kind = "response" /\ trace[1].status_code = 503
    /\ trace[2].kind = "response" /\ trace[2].status_code = 404
    /\ resp = trace[2]
    /\ requests = 2
    /\ slept = <<1>>


\* what holds of a call of safe_request in every state
C20_Bounds ==
    /\ max_retries >= 1
       => /\ requests <= max_retries
          /\ Len(slept) <= max_retries - 1
          /\ rq_err # FellThroughError
          /\ rq = "running" => /\ attempt < max_retries
                               /\ Len(slept) = requests
          /\ rq \in {"returned", "raised"} => Len(slept) = requests - 1
          /\ rq = "raised" => /\ rq_err = RetryExhaustedError(max_retries, url)
                              /\ requests = max_retries
                              /\ Len(slept) = max_retries - 1
    /\ (max_retries <= 0 /\ rq # "idle")
       => /\ requests = 0
          /\ trace = <<>>
          /\ slept = <<>>
          /\ rq \in {"running", "raised"}
          /\ rq = "raised" => rq_err = FellThroughError

\* C20: a call with max_retries >= 1 ends (returned or raised) after at most
\* max_retries requests and at most max_retries - 1 sleeps; while it runs
\* every sleep has another request ahead of it, and when it has ended the
\* last request was not followed by a sleep, so the exhaustion error comes
\* without a wait before it. A call with max_retries <= 0 issues no request
\* and ends with the fell-through error, which no call with max_retries >= 1
\* raises.
C20_CallTerminates ==
    /\ []C20_Bounds
    /\ (rq = "running") ~> (rq \in {"returned", "raised"})
    /\ (rq = "running" /\ max_retries <= 0)
       ~> (rq = "raised" /\ rq_err = FellThroughError /\ requests = 0)

\* C20 witness: a call with max_retries = 3 has failed as exhausted after
\* three requests and two sleeps
C20_Witness ==
    /\ max_retries = 3
    /\ rq = "raised"
    /\ requests = 3
    /\ slept = <<1, 2>>
    /\ rq_err = RetryExhaustedError(3, url)

\* C20 witness of the other case: a call with max_retries = 0 has failed with
\* the fell-through error
C20_WitnessFellThrough ==
    /\ max_retries = 0
    /\ rq = "raised"
    /\ requests = 0
    /\ rq_err = FellThroughError


(***************************************************************************)
(* Properties of the whole run, checked under Spec.                        *)
(***************************************************************************)
\* C14: once get_all_chromebooks has taken a response that is no 2xx from
\* safe_request, the run has failed in get_all_chromebooks: that response is
\* the last one taken, the accumulated records are those of the pages taken
\* before it, nothing is returned or normalized, and the storage session is
\* never opened or committed.
C14_TerminalResponseFailsRun ==
    \A i \in 1..Len(got) :
        ~(got[i] >= 200 /\ got[i] < 300)
        => /\ i = Len(got)
           /\ pc = "failed"
           /\ err.at = "get_all_chromebooks"
           /\ Len(all_devices) = Len(AllRecords(SubSeq(server, 1, i - 1)))
           /\ ~collected
           /\ tvp_rows = <<>>
           /\ session = "none"
           /\ ~committed
           /\ permanent = {OldRowA}


StorageSteps == {"create_temp", "bulk_insert", "finalize"}

\* what each storage step of a session finds when it acts
C15_Order ==
    /\ (temp_table' /\ ~temp_table)                      \* create
       => /\ session = "open" /\ session' = "open"
          /\ staged = <<>> /\ finalized = 0 /\ ~committed
    /\ (staged' # staged /\ staged' # <<>>)               \* bulk insert
       => /\ session = "open" /\ session' = "open"
          /\ temp_table /\ staged = <<>>
          /\ finalized = 0 /\ ~committed
    /\ finalized' # finalized                             \* finalize
       => /\ session = "open" /\ session' = "open"
          /\ finalized = 0 /\ finalized' = 1
          /\ temp_table /\ staged = tvp_rows /\ staged # <<>>
          /\ err = NoError /\ ~committed
    /\ committed' # committed                             \* commit
       => /\ ~committed
          /\ session = "open" /\ session' = "closed"
          /\ temp_table /\ staged = tvp_rows /\ finalized = 1
          /\ err = NoError /\ err' = NoError
          /\ permanent' = Upsert(permanent, staged)
    /\ session = "closed"
       => UNCHANGED <<session, temp_table, staged, finalized, committed,
                      reconciled, permanent>>

\* a session in which a step failed leaves nothing behind
C15_NothingPersists ==
    /\ err.at \in StorageSteps
       => /\ ~committed
          /\ permanent = {OldRowA}
          /\ pc \in {"rollback", "failed"}
          /\ pc = "failed" => /\ session = "closed"
                              /\ ~temp_table
                              /\ staged = <<>>
                              /\ reconciled = permanent
    /\ committed => err = NoError /\ finalized = 1 /\ session = "closed"
    /\ pc \in {"done", "failed"} => session # "open"

\* C15: in the one storage session of a run the staging table is created,
\* then the batch is inserted, then the finalize procedure is invoked, then
\* the session is committed, each at most once and each only after the
\* steps before it have succeeded; when a step fails (the finalize call
\* included) the session ends without a commit, and the permanent table, the
\* staging table and the reconciled rows are as before the session.
C15_SessionStepsInOrder ==
    /\ []C15_NothingPersists
    /\ [][C15_Order]_vars

\* C15 witness: the finalize call failed after the batch had been staged, and
\* the session has ended without a commit
C15_Witness ==
    /\ pc = "failed"
    /\ err.at = "finalize"
    /\ finalized = 1
    /\ Len(seen_by_sp[1]) = 2
    /\ session = "closed"
    /\ ~committed
    /\ permanent = {OldRowA}


\* the stage a position of process_item belongs to
StageOf(p) ==
    CASE p = "start" -> 1                                 \* credentials
      [] p \in {"collect_request", "collect_wait"} -> 2   \* collection
      [] p = "normalize" -> 3                             \* normalization
      [] p \in {"open_session", "create_temp", "bulk_insert", "finalize",
                "exit", "rollback"} -> 4                  \* loading
      [] p \in {"done", "failed"} -> 5

CredentialErrors == {"process_item", "GoogleTokenFetcher"}
CollectionErrors == {"safe_request", "get_all_chromebooks"}

\* what a stage finds done, and what a failed stage leaves undone
C16_Stages ==
    /\ calls # <<>> => pc # "start"
    /\ collected => calls # <<>> /\ got # <<>> /\ StageOf(pc) >= 3
    /\ tvp_rows # <<>> => collected /\ tvp_rows = NormalizeAll(devices)
                          /\ StageOf(pc) >= 4
    /\ session # "none" => tvp_rows # <<>>
    /\ err.at \in CredentialErrors
       => /\ pc = "failed"
          /\ calls = <<>> /\ got = <<>> /\ requests = 0 /\ rq = "idle"
          /\ server = <<>>
          /\ ~collected /\ tvp_rows = <<>> /\ session = "none"
    /\ err.at \in CollectionErrors
       => /\ pc = "failed"
          /\ ~collected /\ devices = <<>> /\ tvp_rows = <<>>
          /\ session = "none" /\ ~temp_table /\ finalized = 0 /\ ~committed
    /\ err # NoError => StageOf(pc) \in {4, 5} /\ pc # "done"
    /\ pc = "done" => collected /\ session = "closed" /\ committed

\* no step goes back to an earlier stage, redoes the work of a finished
\* stage, or follows the end of the run
C16_NoStageAgain ==
    /\ StageOf(pc') >= StageOf(pc)
    /\ StageOf(pc) = 5 => UNCHANGED vars
    /\ StageOf(pc) >= 3 => UNCHANGED <<calls, got, devices, collected, server>>
    /\ StageOf(pc) >= 4 => UNCHANGED tvp_rows
    /\ err # NoError => err' = err

\* C16: process_item acquires the credentials, collects, normalizes and
\* loads in this order; a stage starts only when the ones before it are
\* done, none is entered again, and a failed stage ends the run: after a
\* credential failure no directory request has been made, after a
\* collection failure nothing is normalized and no storage session for
\* writing has been opened.
C16_StagesInOrder ==
    /\ []C16_Stages
    /\ [][C16_NoStageAgain]_vars

\* C16 witness: the collection failed on its second page, after the
\* credentials had been acquired; no session was opened
C16_Witness ==
    /\ pc = "failed"
    /\ err.at = "get_all_chromebooks"
    /\ Len(calls) = 2
    /\ all_devices # <<>>
    /\ tvp_rows = <<>>
    /\ session = "none"


NoDeviceId(d) == "deviceId" \notin DOMAIN d

\* C17: the normalized rows are as many as the collected records, the row of
\* a record without deviceId being there with device_id = None; a run that
\* collected such a record never gets its batch past the insert: the
\* finalize procedure is not invoked, nothing is committed, the permanent
\* table stays as it was, and once the run has ended no row of it is staged
\* or reconciled.
C17_MissingIdRejectsBatch ==
    /\ StageOf(pc) >= 4 /\ collected
       => /\ Len(tvp_rows) = Len(devices)
          /\ \A i \in 1..Len(devices) :
                NoDeviceId(devices[i]) => tvp_rows[i].device_id = None
    /\ (collected /\ \E i \in 1..Len(devices) : NoDeviceId(devices[i]))
       => /\ pc \notin {"finalize", "exit", "done"}
          /\ finalized = 0
          /\ seen_by_sp = <<>>
          /\ ~committed
          /\ permanent = {OldRowA}
          /\ reconciled = {OldRowA}
          /\ Len(staged) < Len(tvp_rows) \/ tvp_rows = <<>>
          /\ pc = "failed" => staged = <<>> /\ ~temp_table

\* C17 witness: the first of two records has no deviceId; both were
\* normalized, the insert failed and the run has ended with nothing committed
C17_Witness ==
    /\ pc = "failed"
    /\ err.at = "bulk_insert"
    /\ Len(devices) = 2
    /\ NoDeviceId(devices[1])
    /\ ~NoDeviceId(devices[2])
    /\ Len(tvp_rows) = 2
    /\ tvp_rows[1].device_id = None
    /\ ~committed


\* get_all_chromebooks has left its loop, by return or by an exception of
\* its own
CollectorEnded == collected \/ err.at = "get_all_chromebooks"

\* C18: as long as every call of safe_request has returned a page with
\* status 200, get_all_chromebooks has ended exactly when the last page it
\* took carries no cursor: it goes on after every page with a cursor, however
\* many there are, and after the page without one it has made one call per
\* page of the chain.
C18_EndsExactlyAtLastPage ==
    (err.at # "safe_request" /\ \A i \in 1..Len(got) : got[i] = 200)
    => /\ CollectorEnded
          <=> (got # <<>> /\ "nextPageToken" \notin DOMAIN server[Len(got)])
       /\ CollectorEnded => Len(calls) = Len(server) /\ Len(got) = Len(server)


(***************************************************************************)
(* Properties of runs in a row, checked under SpecTwice.                   *)
(***************************************************************************)
\* what holds between the runs and within each
C12_SameRowsEachRun ==
    /\ finalized <= run
    /\ Len(seen_by_sp) = finalized
    /\ pc = "done" => finalized = run
    /\ \A k \in 1..Len(seen_by_sp) :
          /\ seen_by_sp[k] = seen_by_sp[1]
          /\ seen_by_sp[k] = NormalizeAll(AllRecords(server))
    /\ pc = "create_temp" => ~temp_table /\ staged = <<>>
    /\ pc = "start" => ~temp_table /\ staged = <<>>
    /\ pc = "done" => permanent = Upsert({OldRowA}, seen_by_sp[1])

\* the commit of a later run leaves the permanent table as the run before
\* left it
C12_LaterCommitChangesNothing ==
    (run >= 2 /\ committed' /\ ~committed) => permanent' = permanent

\* C12: when process_item runs again after a successful run against the same
\* directory, every run starts with no staging table and no staged row,
\* stages the same rows as the first run, and invokes the finalize procedure
\* once; with a procedure that upserts by device_id the commit of a later run
\* leaves the permanent table exactly as the first run left it.
C12_SecondRunIdempotent ==
    /\ []C12_SameRowsEachRun
    /\ [][C12_LaterCommitChangesNothing]_vars

\* C12 witness: the second run has committed; both runs staged the same two
\* rows, and the permanent table holds what the first run wrote
C12_Witness ==
    /\ run = 2
    /\ pc = "done"
    /\ committed
    /\ finalized = 2
    /\ Len(seen_by_sp[2]) = 2
    /\ seen_by_sp[2] = seen_by_sp[1]
    /\ permanent # {OldRowA}


(***************************************************************************)
(* Properties of two overlapping loaders, checked under SpecPair.          *)
(***************************************************************************)
\* each table holds rows of its owner's batch only, each finalize call saw
\* its own run's batch, whole, and a run fails only for a row of its own
C19_OwnRowsOnly ==
    /\ \A key \in DOMAIN tempdb :
          /\ key.owner \in Loaders
          /\ Len(tempdb[key]) <= Len(ld_rows[key.owner])
          /\ tempdb[key] = SubSeq(ld_rows[key.owner], 1, Len(tempdb[key]))
    /\ \A l \in Loaders :
          /\ ld_pc[l] = "finalize"
             => \E key \in DOMAIN tempdb : key.owner = l /\ tempdb[key] = ld_rows[l]
          /\ ld_pc[l] \in {"exit", "done"} => ld_seen[l] = ld_rows[l]
          /\ ld_pc[l] \in {"rollback", "failed"}
             => /\ ld_seen[l] = <<>>
                /\ \E i \in 1..Len(ld_rows[l]) : ld_rows[l][i].device_id = None

\* a step changes, creates or drops only tables of the loader that takes it
C19_OwnTableOnly ==
    \A key \in DOMAIN tempdb \cup DOMAIN tempdb' :
        (\/ key \notin DOMAIN tempdb
         \/ key \notin DOMAIN tempdb'
         \/ tempdb'[key] # tempdb[key])
        => /\ key.owner \in Loaders
           /\ ld_pc'[key.owner] # ld_pc[key.owner]

\* C19: when the loading stages of two runs overlap, each on its own
\* connection, the finalize call of a run sees exactly the rows that run
\* staged, the staging table of a run never holds a row of the other, no
\* step of one run creates, changes or drops the other's staging table, and
\* neither run fails because of the other.
C19_LoadersIsolated ==
    /\ []C19_OwnRowsOnly
    /\ [][C19_OwnTableOnly]_vars

\* C19 witness: both staging tables exist at once with different rows; the
\* first loader has finalized on its own rows while the second is about to
C19_Witness ==
    /\ ld_pc = <<"exit", "finalize">>
    /\ Cardinality(DOMAIN tempdb) = 2
    /\ ld_rows[1] # ld_rows[2]
    /\ Len(ld_rows[1]) = 2
    /\ ld_seen[1] = ld_rows[1]
    /\ ld_seen[2] = <<>>


====
